---- MODULE Spec2Model ----
(***************************************************************************)
(* The heat-pump script src/main.py: five components, five connections     *)
(* forming one ring, the parameters it fixes, and the solve call.          *)
(*                                                                         *)
(* The script only calls into the simulation library; the graph registry,  *)
(* the topology validation and the assembly-time degree-of-freedom count   *)
(* are not part of the repository and are written here from the design     *)
(* document (sections 3, 4.1, 4.2, 4.3).  Everything the script itself     *)
(* fixes (components, ports, connections, constrained parameters) is taken *)
(* from src/main.py.  Numeric parameter values (0.98, -1000, 0.85, 20, 80) *)
(* do not influence any counted quantity and are not carried in the state. *)
(***************************************************************************)
EXTENDS Integers, FiniteSets, Sequences, TLC

VARIABLES
    ops,        \* registered operations (python variable names of the script)
    conns,      \* registered streams
    last,       \* [op, status] of the most recent interface call
    reported,   \* port list carried by the most recent OpenPortError
    attrs,      \* fixed parameters: set of <<entity, parameter>>
    asm         \* outcome of the assembly-time degree-of-freedom count

vars == <<ops, conns, last, reported, attrs, asm>>

----------------------------------------------------------------------------
(* Data of the script                                                      *)

\* main.py:15-23  the label given to each component constructor
Label ==
    [cc |-> "cycle closer", co |-> "condensor", ev |-> "evaporater",
     va |-> "expansion valve", cp |-> "compressor"]

\* main.py:15-23  the class each component is constructed from
Kind ==
    [cc |-> "CycleCloser", co |-> "SimpleHeatExchanger",
     ev |-> "SimpleHeatExchanger", va |-> "Valve", cp |-> "Compressor"]

Operations == DOMAIN Label

\* main.py:26-30  every component is used through exactly 'in1' and 'out1'
PortIds == {"in1", "out1"}

Connection(s, sid, t, tid, l) ==
    [source |-> s, source_id |-> sid, target |-> t, target_id |-> tid,
     label |-> l]

c1 == Connection("cc", "out1", "ev", "in1", "1")
c2 == Connection("ev", "out1", "cp", "in1", "2")
c3 == Connection("cp", "out1", "co", "in1", "3")
c4 == Connection("co", "out1", "va", "in1", "4")
c0 == Connection("va", "out1", "cc", "in1", "0")

\* a script that forgets connection 1 in add_conns
ScriptConns_forgotten == {c0, c2, c3, c4}

\* main.py:33  my_plant.add_conns(c0, c1, c2, c3, c4)
ScriptConns == {c0, c1, c2, c3, c4}

\* main.py:36-38  co.set_attr(pr, Q); ev.set_attr(pr); cp.set_attr(eta_s)
ScriptOpAttrs ==
    {<<"co", "pr">>, <<"co", "Q">>, <<"ev", "pr">>, <<"cp", "eta_s">>}

\* a script that pins connection 4 by its temperature only
ScriptConnAttrs_noquality ==
    {<<"2", "T">>, <<"2", "x">>, <<"2", "fluid">>, <<"4", "T">>}

\* main.py:40-41  c2.set_attr(T, x, fluid); c4.set_attr(T, x)
ScriptConnAttrs ==
    {<<"2", "T">>, <<"2", "x">>, <<"2", "fluid">>, <<"4", "T">>, <<"4", "x">>}

ScriptAttrs == ScriptOpAttrs \cup ScriptConnAttrs

\* Streams a caller may additionally try to register: each collides with a
\* port of the script's ring, and together with c1, c3, c4 they close two
\* separate rings (cc-ev and cp-co-va).
OtherConns ==
    {Connection("ev", "out1", "cc", "in1", "5"),
     Connection("va", "out1", "cp", "in1", "6")}

Streams == ScriptConns \cup OtherConns

\* components and connections the script calls set_attr on (main.py:36-41)
ConfiguredOps == {"co", "ev", "cp"}
ConfiguredConns == {"2", "4"}
StreamProps == {"T", "x", "fluid"}

----------------------------------------------------------------------------
(* Graph registry (design 4.1)                                             *)

SourcePort(c) == <<c.source, c.source_id>>
TargetPort(c) == <<c.target, c.target_id>>

AllPorts == {<<o, p>> : o \in ops, p \in PortIds}

UsedPorts == {SourcePort(c) : c \in conns} \cup {TargetPort(c) : c \in conns}

OpenPorts == AllPorts \ UsedPorts

Neighbours(o) ==
    {c.target : c \in {d \in conns : d.source = o}}
        \cup {c.source : c \in {d \in conns : d.target = o}}

RECURSIVE Flood(_)
Flood(S) ==
    LET N == (S \cup UNION {Neighbours(o) : o \in S}) \cap ops
    IN  IF N = S THEN S ELSE Flood(N)

RECURSIVE CountComponents(_)
CountComponents(rest) ==
    IF rest = {} THEN 0
    ELSE LET o == CHOOSE x \in rest : TRUE
         IN  1 + CountComponents(rest \ Flood({o}))

TopologyStatus ==
    IF OpenPorts # {} THEN "OpenPortError"
    ELSE IF CountComponents(ops) > 1 THEN "DisconnectedGraphError"
    ELSE "ok"

AddOperation(o) ==
    /\ IF \E r \in ops : Label[r] = Label[o]
       THEN /\ last' = [op |-> "addOperation", status |-> "DuplicateLabelError"]
            /\ ops' = ops
       ELSE /\ last' = [op |-> "addOperation", status |-> "ok"]
            /\ ops' = ops \cup {o}
    /\ reported' = {}
    /\ UNCHANGED <<conns, attrs, asm>>

AddStream(c) ==
    /\ IF c.source \notin ops \/ c.target \notin ops
       THEN /\ last' = [op |-> "addStream", status |-> "UnknownOperationError"]
            /\ conns' = conns
       ELSE IF SourcePort(c) \in UsedPorts \/ TargetPort(c) \in UsedPorts
       THEN /\ last' = [op |-> "addStream", status |-> "PortAlreadyConnectedError"]
            /\ conns' = conns
       ELSE /\ last' = [op |-> "addStream", status |-> "ok"]
            /\ conns' = conns \cup {c}
    /\ reported' = {}
    /\ UNCHANGED <<ops, attrs, asm>>

ValidateTopology ==
    /\ last' = [op |-> "validateTopology", status |-> TopologyStatus]
    /\ reported' = IF TopologyStatus = "OpenPortError" THEN OpenPorts ELSE {}
    /\ UNCHANGED <<ops, conns, attrs, asm>>

----------------------------------------------------------------------------
(* Degree-of-freedom count (design 3, 4.2, 4.3)                            *)

\* the four primary attributes of a stream
StreamVariables == {"p", "h", "m", "fluid"}

\* equations an operation always supplies
LocalEquations(kind) ==
    CASE kind = "SimpleHeatExchanger" ->
            {"mass", "composition", "pressure_ratio", "energy_balance"}
      [] kind = "Compressor" ->
            {"mass", "composition", "isentropic_efficiency", "power"}
      [] kind = "Valve" ->
            {"mass", "composition", "enthalpy"}
      [] kind = "CycleCloser" ->
            {"mass", "composition", "pressure", "enthalpy"}

\* parameters of an operation; each is an unknown unless the user fixes it
Params(kind) ==
    CASE kind = "SimpleHeatExchanger" -> {"pr", "Q"}
      [] kind = "Compressor" -> {"eta_s", "P"}
      [] kind = "Valve" -> {}
      [] kind = "CycleCloser" -> {}

RECURSIVE CountParams(_)
CountParams(S) ==
    IF S = {} THEN 0
    ELSE LET o == CHOOSE x \in S : TRUE
         IN  Cardinality(Params(Kind[o])) + CountParams(S \ {o})

\* local equations of the operations in S, leaving out the CycleCloser
\* equations named in skip
RECURSIVE CountLocalEquations(_, _)
CountLocalEquations(S, skip) ==
    IF S = {} THEN 0
    ELSE LET o == CHOOSE x \in S : TRUE
             eqs == IF Kind[o] = "CycleCloser"
                    THEN LocalEquations(Kind[o]) \ skip
                    ELSE LocalEquations(Kind[o])
         IN  Cardinality(eqs) + CountLocalEquations(S \ {o}, skip)

FreeVariableCount ==
    Cardinality(conns) * Cardinality(StreamVariables) + CountParams(ops)

\* one residual per local equation and one per user constraint
ResidualCount(skip) == CountLocalEquations(ops, skip) + Cardinality(attrs)

NotAssembled == [equations |-> 0, unknowns |-> 0, result |-> "none"]

SetOperationParams(o, p) ==
    /\ o \in ops
    /\ p \in Params(Kind[o])
    /\ <<o, p>> \notin attrs
    /\ attrs' = attrs \cup {<<o, p>>}
    /\ asm' = NotAssembled
    /\ last' = [op |-> "setOperationParams", status |-> "ok"]
    /\ UNCHANGED <<ops, conns, reported>>

SetStreamParams(l, p) ==
    /\ \E c \in conns : c.label = l
    /\ <<l, p>> \notin attrs
    /\ attrs' = attrs \cup {<<l, p>>}
    /\ asm' = NotAssembled
    /\ last' = [op |-> "setStreamParams", status |-> "ok"]
    /\ UNCHANGED <<ops, conns, reported>>

\* main.py:43  solve: topology validation, then the assembly-time count;
\* what the numerical solver does afterwards is not modelled
Solve ==
    /\ asm.result = "none"
    /\ reported' = IF TopologyStatus = "OpenPortError" THEN OpenPorts ELSE {}
    /\ IF TopologyStatus # "ok"
       THEN /\ last' = [op |-> "solve", status |-> TopologyStatus]
            /\ asm' = asm
       ELSE LET e == ResidualCount({})
                u == FreeVariableCount
                r == IF e < u THEN "UnderdeterminedSystemError"
                     ELSE IF e > u THEN "OverdeterminedSystemError"
                     ELSE "ok"
            IN  /\ asm' = [equations |-> e, unknowns |-> u, result |-> r]
                /\ last' = [op |-> "solve", status |-> r]
    /\ UNCHANGED <<ops, conns, attrs>>

----------------------------------------------------------------------------
(* Specifications                                                          *)

\* construction phase: registrations in any order, validation at any time
Init ==
    /\ ops = {}
    /\ conns = {}
    /\ last = [op |-> "none", status |-> "ok"]
    /\ reported = {}
    /\ attrs = {}
    /\ asm = NotAssembled

Next ==
    \/ \E o \in Operations : AddOperation(o)
    \/ \E c \in Streams : AddStream(c)
    \/ ValidateTopology

Spec == Init /\ [][Next]_vars

\* configuration phase: the network as it stands after main.py:33
InitDof ==
    /\ ops = Operations
    /\ conns = ScriptConns
    /\ last = [op |-> "addStream", status |-> "ok"]
    /\ reported = {}
    /\ attrs = {}
    /\ asm = NotAssembled

NextDof ==
    \/ \E o \in ConfiguredOps : \E p \in Params(Kind[o]) :
            SetOperationParams(o, p)
    \/ \E l \in ConfiguredConns : \E p \in StreamProps : SetStreamParams(l, p)
    \/ Solve

SpecDof == InitDof /\ [][NextDof]_vars

TypeOK ==
    /\ ops \subseteq Operations
    /\ conns \subseteq Streams
    /\ reported \subseteq (Operations \X PortIds)
    /\ asm.result \in {"none", "ok", "UnderdeterminedSystemError",
                       "OverdeterminedSystemError"}

IsScriptGraph == ops = Operations /\ conns = ScriptConns

IsScriptConfig == IsScriptGraph /\ attrs = ScriptAttrs

----------------------------------------------------------------------------
(* Properties                                                              *)

AttachedCount(pt) ==
    Cardinality({c \in conns : SourcePort(c) = pt \/ TargetPort(c) = pt})

EveryPortOnce ==
    \A o \in ops : \A p \in PortIds : AttachedCount(<<o, p>>) = 1

\* no proper non-empty part of the registered operations is cut off from
\* the rest
SingleComponent ==
    \A S \in SUBSET ops :
        (S # {} /\ S # ops) =>
            \E c \in conns : (c.source \in S) # (c.target \in S)

Unconnected ==
    {pt \in Operations \X PortIds : pt[1] \in ops /\ AttachedCount(pt) = 0}

\* C6: validateTopology succeeds exactly when every port of every registered
\* operation carries exactly one stream and the graph is one connected
\* component; an OpenPortError lists exactly the unconnected ports; a
\* DisconnectedGraphError is raised when the ports are all connected but the
\* graph falls apart; the ring built by the script passes the validation.
C6_ValidateTopology ==
    last.op = "validateTopology" =>
        /\ last.status \in {"ok", "OpenPortError", "DisconnectedGraphError"}
        /\ (last.status = "ok") <=> (EveryPortOnce /\ SingleComponent)
        /\ (last.status = "OpenPortError") =>
                (reported = Unconnected /\ reported # {})
        /\ (last.status = "DisconnectedGraphError") =>
                (EveryPortOnce /\ ~SingleComponent)
        /\ IsScriptGraph => last.status = "ok"

C6_Witness ==
    IsScriptGraph /\ last = [op |-> "validateTopology", status |-> "ok"]

\* the CycleCloser equations that the other operations' mass and composition
\* conservation already imply around a closed ring
CycleCloserRedundant == {"mass", "composition"}

====
